---- MODULE Spec2Model ----
(***************************************************************************)
(* A model of xwrf: the diagnostic deriver (diagnostics.py), the grid      *)
(* projector (grid.py) and the coordinate reconciler and open entry point  *)
(* (io_plugin.py).                                                         *)
(*                                                                         *)
(* A dataset is a record [vars, attrs]: vars maps each variable name to    *)
(* [dims, data, attrs, encoding, coord]; an array is a nested sequence,    *)
(* one level per dimension.  The dataset's dimensions are derived from its *)
(* variables, as xarray derives them.  Projected coordinates are held in   *)
(* half grid units (twice their value), so that (i - 0.5) * dx stays an    *)
(* integer.                                                                *)
(***************************************************************************)
EXTENDS Integers, Sequences, FiniteSets, TLC

VARIABLES
    ds,        \* the dataset object the call works on (mutated in place)
    in0,       \* the dataset as it was when the call started
    drop,      \* calc_base_diagnostics' drop / drop_diagnostic_origin_components
    destagger, \* open_dataset's destagger argument
    pc,        \* position of the call
    err,       \* the exception that ended the call, "none" when none
    ret,       \* what the call returned: "none", "dataset" or an object's name
    warned,    \* the coordinates a warning was emitted for
    grid,      \* the result of the last _wrf_grid_from_dataset call
    en         \* pyproj's projection of (CEN_LON, CEN_LAT): <<e, n>>

vars == <<ds, in0, drop, destagger, pc, err, ret, warned, grid, en>>

----------------------------------------------------------------------------
(* Bounds *)

MaxN == 2      \* grid sizes nx, ny range over 1..MaxN
MaxVal == 1    \* raw fields are filled from 0..MaxVal
NT == 2        \* size of the Time dimension
NZ == 1        \* size of the bottom_top dimension

(* Program constants *)

ThetaBase == 300          \* T + 300
Gravity100 == 981         \* 9.81, in hundredths
EarthRadius == 6370000    \* a, b
NorthPole == 90           \* lat_0 of the polar stereographic family
UnknownProj == 99         \* proj_id of an unrecognised PROJ_NAME

----------------------------------------------------------------------------
(* Arrays *)

Range(f) == {f[x] : x \in DOMAIN f}

RECURSIVE Ramp(_, _)
\* An array of the given shape whose element at (i1, ..., ik) is
\* c + (i1 - 1) + ... + (ik - 1).
Ramp(shape, c) ==
    IF shape = <<>> THEN c
    ELSE [i \in 1..Head(shape) |-> Ramp(Tail(shape), c + i - 1)]

RECURSIVE AddConst(_, _, _)
AddConst(a, k, nd) ==
    IF nd = 0 THEN a + k
    ELSE [i \in 1..Len(a) |-> AddConst(a[i], k, nd - 1)]

RECURSIVE AddArr(_, _, _)
AddArr(a, b, nd) ==
    IF nd = 0 THEN a + b
    ELSE [i \in 1..Len(a) |-> AddArr(a[i], b[i], nd - 1)]

\* A slip of DivG: division by 9.8.
DivG_rounded(x) == [num |-> 10 * x, den |-> 98]

\* x / 9.81 as the exact fraction 100 x / 981.
DivG(x) == [num |-> 100 * x, den |-> Gravity100]

RECURSIVE DivArr(_, _)
DivArr(a, nd) ==
    IF nd = 0 THEN DivG(a)
    ELSE [i \in 1..Len(a) |-> DivArr(a[i], nd - 1)]

RECURSIVE Flat(_, _)
\* The elements of an array, in row-major order.
Flat(a, nd) ==
    IF nd = 0 THEN <<a>>
    ELSE IF Len(a) = 0 THEN <<>>
    ELSE Flat(a[1], nd - 1) \o Flat(Tail(a), nd)

RECURSIVE SizeAt(_, _)
\* The size of an array along its k-th axis.
SizeAt(a, k) == IF k = 1 THEN Len(a) ELSE SizeAt(a[1], k - 1)

----------------------------------------------------------------------------
(* Datasets *)

NoAttrs == [x \in {} |-> ""]

Var(dims, data, attrs) ==
    [dims |-> dims, data |-> data, attrs |-> attrs,
     encoding |-> NoAttrs, coord |-> FALSE]

Has(d, name) == name \in DOMAIN d.vars

SetVar(d, name, v) == [d EXCEPT !.vars = (name :> v) @@ @]

DelVar(d, name) ==
    [d EXCEPT !.vars = [x \in (DOMAIN d.vars) \ {name} |-> d.vars[x]]]

NDim(d, name) == Len(d.vars[name].dims)

\* dataset.dims: the dimensions of the dataset's variables.
DimNames(d) == UNION {Range(d.vars[x].dims) : x \in DOMAIN d.vars}

AxisOf(dims, dim) == CHOOSE k \in 1..Len(dims) : dims[k] = dim

DimSize(d, dim) ==
    LET x == CHOOSE y \in DOMAIN d.vars : dim \in Range(d.vars[y].dims)
    IN  SizeAt(d.vars[x].data, AxisOf(d.vars[x].dims, dim))

\* The outcome of a call: the dataset as the call left it, and the exception
\* that ended it.
Ok(d) == [ds |-> d, err |-> "none"]
Raise(d, e) == [ds |-> d, err |-> e]

----------------------------------------------------------------------------
(* diagnostics.py *)

\* _check_if_dask: a stub that accepts every array.
CheckIfDask(v) == TRUE

\* dataset[name]: a KeyError when the dataset has no such variable.
\* Lines 36-43: potential temperature.
PotentialTemperature(d, dr) ==
    IF ~Has(d, "T") THEN Raise(d, "KeyError")
    ELSE IF ~CheckIfDask(d.vars["T"]) THEN Ok(d)
    ELSE
        LET t  == d.vars["T"]
            d1 == SetVar(d, "air_potential_temperature",
                         Var(t.dims,
                             AddConst(t.data, ThetaBase, Len(t.dims)),
                             [units |-> "K",
                              standard_name |-> "air_potential_temperature"]))
        IN  Ok(IF dr THEN DelVar(d1, "T") ELSE d1)

\* A slip of Pressure: drop removes P and leaves PB behind.
Pressure_keepsPB(d, dr) ==
    IF ~Has(d, "P") THEN Raise(d, "KeyError")
    ELSE IF ~Has(d, "PB") THEN Raise(d, "KeyError")
    ELSE
        LET p  == d.vars["P"]
            pb == d.vars["PB"]
            u  == IF "units" \in DOMAIN p.attrs THEN p.attrs["units"] ELSE "Pa"
            d1 == SetVar(d, "air_pressure",
                         Var(p.dims,
                             AddArr(p.data, pb.data, Len(p.dims)),
                             [units |-> u, standard_name |-> "air_pressure"]))
        IN  Ok(IF dr THEN DelVar(d1, "P") ELSE d1)

\* Lines 46-53: pressure.
Pressure(d, dr) ==
    IF ~Has(d, "P") THEN Raise(d, "KeyError")
    ELSE IF ~CheckIfDask(d.vars["P"]) THEN Ok(d)
    ELSE IF ~Has(d, "PB") THEN Raise(d, "KeyError")
    ELSE IF ~CheckIfDask(d.vars["PB"]) THEN Ok(d)
    ELSE
        LET p  == d.vars["P"]
            pb == d.vars["PB"]
            u  == IF "units" \in DOMAIN p.attrs THEN p.attrs["units"] ELSE "Pa"
            d1 == SetVar(d, "air_pressure",
                         Var(p.dims,
                             AddArr(p.data, pb.data, Len(p.dims)),
                             [units |-> u, standard_name |-> "air_pressure"]))
        IN  Ok(IF dr THEN DelVar(DelVar(d1, "P"), "PB") ELSE d1)

\* Lines 56-68: geopotential and geopotential height.
Geopotential(d, dr) ==
    IF ~Has(d, "PH") THEN Raise(d, "KeyError")
    ELSE IF ~CheckIfDask(d.vars["PH"]) THEN Ok(d)
    ELSE IF ~Has(d, "PHB") THEN Raise(d, "KeyError")
    ELSE IF ~CheckIfDask(d.vars["PHB"]) THEN Ok(d)
    ELSE
        LET ph  == d.vars["PH"]
            phb == d.vars["PHB"]
            g   == Var(ph.dims, AddArr(ph.data, phb.data, Len(ph.dims)),
                       [units |-> "m**2 s**-2",
                        standard_name |-> "geopotential"])
            d1  == SetVar(d, "geopotential", g)
            d2  == SetVar(d1, "geopotential_height",
                          Var(g.dims, DivArr(g.data, Len(g.dims)),
                              [units |-> "m",
                               standard_name |-> "geopotential_height"]))
        IN  Ok(IF dr THEN DelVar(DelVar(d2, "PH"), "PHB") ELSE d2)

\* calc_base_diagnostics(dataset, drop): the three blocks in order; an
\* exception ends the call and leaves the dataset as mutated so far.
calc_base_diagnostics(d, dr) ==
    LET r1 == PotentialTemperature(d, dr)
        r2 == IF r1.err # "none" THEN r1 ELSE Pressure(r1.ds, dr)
        r3 == IF r2.err # "none" THEN r2 ELSE Geopotential(r2.ds, dr)
    IN  r3

----------------------------------------------------------------------------
(* Inputs of the diagnostic deriver *)

RawNames == {"T", "P", "PB", "PH", "PHB"}
DerivedNames == {"air_potential_temperature", "air_pressure",
                 "geopotential", "geopotential_height"}

MassDims == <<"Time", "bottom_top", "south_north", "west_east">>
StagDims == <<"Time", "bottom_top_stag", "south_north", "west_east">>

RawDims(name) == IF name \in {"PH", "PHB"} THEN StagDims ELSE MassDims

ShapeOf(dims, nx, ny) ==
    [k \in 1..Len(dims) |->
        CASE dims[k] = "Time" -> NT
          [] dims[k] = "bottom_top" -> NZ
          [] dims[k] = "bottom_top_stag" -> NZ + 1
          [] dims[k] = "south_north" -> ny
          [] dims[k] = "south_north_stag" -> ny + 1
          [] dims[k] = "west_east" -> nx
          [] dims[k] = "west_east_stag" -> nx + 1]

RawVar(name, c, units, nx, ny) ==
    Var(RawDims(name), Ramp(ShapeOf(RawDims(name), nx, ny), c),
        IF units = "" THEN [description |-> name]
        ELSE [description |-> name, units |-> units])

\* A dataset holding the raw fields `present`, field x filled from fill[x],
\* and one unrelated field.
RawDataset(present, fill, punits, nx, ny) ==
    [vars |-> [x \in present \cup {"QVAPOR"} |->
                  IF x = "QVAPOR"
                  THEN Var(MassDims, Ramp(ShapeOf(MassDims, nx, ny), 0),
                           [units |-> "kg kg-1"])
                  ELSE RawVar(x, fill[x], IF x = "P" THEN punits ELSE "Pa",
                              nx, ny)],
     attrs |-> NoAttrs]

NoGrid == [called |-> FALSE, err |-> "none"]

InitDiag ==
    /\ \E present \in SUBSET RawNames, punits \in {"", "hPa"} :
         \E fill \in [present -> 0..MaxVal] :
            /\ (punits = "hPa" => "P" \in present)
            /\ in0 = RawDataset(present, fill, punits, MaxN, 1)
    /\ ds = in0
    /\ drop \in BOOLEAN
    /\ destagger = FALSE
    /\ pc = "call"
    /\ err = "none"
    /\ ret = "none"
    /\ warned = {}
    /\ grid = NoGrid
    /\ en = <<0, 0>>

\* calc_base_diagnostics called on the dataset.
CalcBaseDiagnostics ==
    /\ pc = "call"
    /\ LET r == calc_base_diagnostics(ds, drop)
       IN  /\ ds' = r.ds
           /\ err' = r.err
           /\ ret' = IF r.err = "none" THEN "dataset" ELSE "none"
    /\ pc' = "done"
    /\ UNCHANGED <<in0, drop, destagger, warned, grid, en>>

NextDiag == CalcBaseDiagnostics

SpecDiag == InitDiag /\ [][NextDiag]_vars

----------------------------------------------------------------------------
(* grid.py *)

HorizontalDims ==
    <<"south_north", "west_east", "south_north_stag", "west_east_stag">>

HasAttr(d, name) == name \in DOMAIN d.attrs

DelKeys(f, keys) == [k \in (DOMAIN f) \ keys |-> f[k]]

\* np.arange(n)
Arange(n) == [i \in 1..n |-> i - 1]

\* Lines 22-53: the parameter set and the discriminant of either dialect.
GridParams(d) ==
    LET base == [x_0 |-> 0, y_0 |-> 0, a |-> EarthRadius, b |-> EarthRadius]
    IN  IF HasAttr(d, "PROJ_ENVI_STRING")
        THEN [dx |-> d.attrs["GRID_DX"],
              dy |-> d.attrs["GRID_DY"],
              pargs |-> base @@
                  [lat_1 |-> d.attrs["PROJ_STANDARD_PAR1"],
                   lat_2 |-> d.attrs["PROJ_STANDARD_PAR2"],
                   lat_0 |-> d.attrs["PROJ_CENTRAL_LAT"],
                   lon_0 |-> d.attrs["PROJ_CENTRAL_LON"],
                   center_lon |-> d.attrs["PROJ_CENTRAL_LON"]],
              proj_id |-> IF d.attrs["PROJ_NAME"] \in
                               {"Lambert Conformal Conic",
                                "WRF Lambert Conformal"}
                          THEN 1 ELSE UnknownProj]
        ELSE [dx |-> d.attrs["DX"],
              dy |-> d.attrs["DY"],
              pargs |-> base @@
                  [lat_1 |-> d.attrs["TRUELAT1"],
                   lat_2 |-> d.attrs["TRUELAT2"],
                   lat_0 |-> d.attrs["MOAD_CEN_LAT"],
                   lon_0 |-> d.attrs["STAND_LON"],
                   center_lon |-> d.attrs["CEN_LON"]],
              proj_id |-> d.attrs["MAP_PROJ"]]

\* A slip of SelectProjection: the Mercator branch keeps lon_0 = STAND_LON.
SelectProjection_keepsLon0(pargs, proj_id) ==
    IF proj_id = 1
    THEN DelKeys(pargs @@ [proj |-> "lcc"], {"center_lon"})
    ELSE IF proj_id = 2
    THEN DelKeys([proj |-> "stere", lat_ts |-> pargs["lat_1"],
                  lat_0 |-> NorthPole] @@ pargs,
                 {"lat_1", "lat_2", "center_lon"})
    ELSE IF proj_id = 3
    THEN DelKeys([proj |-> "merc", lat_ts |-> pargs["lat_1"]] @@ pargs,
                 {"lat_0", "lat_1", "lat_2", "center_lon"})
    ELSE [proj |-> "none"]

\* Lines 55-72: the projection family of a discriminant; "none" stands for the
\* NotImplementedError of the last branch.
SelectProjection(pargs, proj_id) ==
    IF proj_id = 1
    THEN DelKeys(pargs @@ [proj |-> "lcc"], {"center_lon"})
    ELSE IF proj_id = 2
    THEN DelKeys([proj |-> "stere", lat_ts |-> pargs["lat_1"],
                  lat_0 |-> NorthPole] @@ pargs,
                 {"lat_1", "lat_2", "center_lon"})
    ELSE IF proj_id = 3
    THEN DelKeys([proj |-> "merc", lat_ts |-> pargs["lat_1"],
                  lon_0 |-> pargs["center_lon"]] @@ pargs,
                 {"lat_0", "lat_1", "lat_2", "center_lon"})
    ELSE [proj |-> "none"]

\* A slip of GridAxes: the staggered axes are shifted by plus half a cell.
GridAxes_plusHalf(x0, y0, nx, ny, dx, dy) ==
    [south_north |-> [i \in 1..ny |-> y0 + 2 * Arange(ny)[i] * dy],
     west_east |-> [i \in 1..nx |-> x0 + 2 * Arange(nx)[i] * dx],
     south_north_stag |->
        [i \in 1..(ny + 1) |-> y0 + (2 * Arange(ny + 1)[i] + 1) * dy],
     west_east_stag |->
        [i \in 1..(nx + 1) |-> x0 + (2 * Arange(nx + 1)[i] + 1) * dx]]

\* Lines 91-97: the four axes, from the doubled corner (x0, y0).
GridAxes(x0, y0, nx, ny, dx, dy) ==
    [south_north |-> [i \in 1..ny |-> y0 + 2 * Arange(ny)[i] * dy],
     west_east |-> [i \in 1..nx |-> x0 + 2 * Arange(nx)[i] * dx],
     south_north_stag |->
        [i \in 1..(ny + 1) |-> y0 + (2 * Arange(ny + 1)[i] - 1) * dy],
     west_east_stag |->
        [i \in 1..(nx + 1) |-> x0 + (2 * Arange(nx + 1)[i] - 1) * dx]]

\* The keys of the returned dict, in insertion order.
GridKeys ==
    <<"crs", "south_north", "west_east", "south_north_stag", "west_east_stag">>

\* _wrf_grid_from_dataset(ds): a dict (its keys and its values), or the
\* exception that ended the call.  centre is what pyproj's transform gives for
\* (CEN_LON, CEN_LAT).
wrf_grid_from_dataset(d, centre) ==
    LET gp == GridParams(d)
        pargs == SelectProjection(gp.pargs, gp.proj_id)
    IN  IF pargs["proj"] = "none"
        THEN [called |-> TRUE, err |-> "NotImplementedError",
              proj_id |-> gp.proj_id]
        ELSE IF ~({"west_east", "south_north"} \subseteq DimNames(d))
        THEN [called |-> TRUE, err |-> "KeyError", proj_id |-> gp.proj_id]
        ELSE
            LET nx == DimSize(d, "west_east")
                ny == DimSize(d, "south_north")
                har == HasAttr(d, "PROJ_ENVI_STRING")
            IN  IF har /\ ~(Has(d, "west_east") /\ Has(d, "south_north"))
                THEN [called |-> TRUE, err |-> "KeyError",
                      proj_id |-> gp.proj_id]
                ELSE
                    LET x0 == IF har THEN d.vars["west_east"].data[1]
                              ELSE 2 * centre[1] - (nx - 1) * gp.dx
                        y0 == IF har THEN d.vars["south_north"].data[1]
                              ELSE 2 * centre[2] - (ny - 1) * gp.dy
                        ax == GridAxes(x0, y0, nx, ny, gp.dx, gp.dy)
                    IN  [called |-> TRUE, err |-> "none",
                         proj_id |-> gp.proj_id,
                         nx |-> nx, ny |-> ny, dx |-> gp.dx, dy |-> gp.dy,
                         x0 |-> x0, y0 |-> y0,
                         keys |-> GridKeys,
                         vals |-> [crs |-> [kind |-> "crs", val |-> pargs],
                                   south_north |->
                                      [kind |-> "array",
                                       val |-> ax.south_north],
                                   west_east |->
                                      [kind |-> "array",
                                       val |-> ax.west_east],
                                   south_north_stag |->
                                      [kind |-> "array",
                                       val |-> ax.south_north_stag],
                                   west_east_stag |->
                                      [kind |-> "array",
                                       val |-> ax.west_east_stag]]]

\* What unpacking the dict by values would give.
Unpack_values(g) ==
    [crs |-> g.vals[g.keys[1]],
     south_north |-> g.vals[g.keys[2]],
     west_east |-> g.vals[g.keys[3]],
     south_north_stag |-> g.vals[g.keys[4]],
     west_east_stag |-> g.vals[g.keys[5]]]

\* Lines 102-104: crs, south_north, west_east, south_north_stag,
\* west_east_stag = <dict> binds the five names to what iterating the dict
\* yields: its keys (strings), in insertion order.
Unpack(g) ==
    [crs |-> [kind |-> "str", val |-> g.keys[1]],
     south_north |-> [kind |-> "str", val |-> g.keys[2]],
     west_east |-> [kind |-> "str", val |-> g.keys[3]],
     south_north_stag |-> [kind |-> "str", val |-> g.keys[4]],
     west_east_stag |-> [kind |-> "str", val |-> g.keys[5]]]

\* dataset[name] = (dim, data, attrs), lines 107-140: xarray builds a
\* one-dimensional variable and refuses data that is not one-dimensional (a
\* string is zero-dimensional) or whose length is not the dimension's size.
SetAxis(d, name, obj, attrs) ==
    IF obj.kind # "array" THEN Raise(d, "ValueError")
    ELSE IF name \in DimNames(d) /\ Len(obj.val) # DimSize(d, name)
    THEN Raise(d, "ValueError")
    ELSE Ok(SetVar(d, name,
                   [dims |-> <<name>>, data |-> obj.val, attrs |-> attrs,
                    encoding |-> NoAttrs, coord |-> TRUE]))

\* crs.to_cf(): the CF attributes of a projection.
ToCF(pargs) ==
    [grid_mapping_name |->
        CASE pargs["proj"] = "lcc" -> "lambert_conformal_conic"
          [] pargs["proj"] = "stere" -> "polar_stereographic"
          [] pargs["proj"] = "merc" -> "mercator",
     earth_radius |-> "6370000"]

DataVars(d) == {x \in DOMAIN d.vars : ~d.vars[x].coord}

IsHorizontal(v) == \E k \in 1..Len(v.dims) : v.dims[k] \in Range(HorizontalDims)

\* Lines 142-146: the marker variable and the back-references.  A string has
\* no to_cf.
AddGridMapping(d, crs) ==
    IF crs.kind # "crs" THEN Raise(d, "AttributeError")
    ELSE
        LET d1 == SetVar(d, "wrf_projection",
                         Var(<<>>, crs.val, ToCF(crs.val)))
        IN  Ok([d1 EXCEPT !.vars =
                   [x \in DOMAIN d1.vars |->
                       IF x \in DataVars(d1) /\ IsHorizontal(d1.vars[x])
                       THEN [d1.vars[x] EXCEPT !.attrs =
                                [grid_mapping |-> "wrf_projection"] @@ @]
                       ELSE d1.vars[x]]])

YAttrs == [units |-> "m", standard_name |-> "projection_y_coordinate",
           axis |-> "Y"]
XAttrs == [units |-> "m", standard_name |-> "projection_x_coordinate",
           axis |-> "X"]
Shifted(attrs) == attrs @@ [c_grid_axis_shift |-> "0.5"]

\* Lines 107-111.
AttachSouthNorth(d, u) == SetAxis(d, "south_north", u.south_north, YAttrs)

\* Lines 112-116: the data assigned is south_north.
AttachWestEast(r, u) ==
    IF r.err # "none" THEN r
    ELSE SetAxis(r.ds, "west_east", u.south_north, XAttrs)

\* Lines 119-129.
AttachSouthNorthStag(r, u) ==
    IF r.err # "none" \/ "south_north_stag" \notin DimNames(r.ds) THEN r
    ELSE SetAxis(r.ds, "south_north_stag", u.south_north_stag,
                 Shifted(YAttrs))

\* Lines 130-140.
AttachWestEastStag(r, u) ==
    IF r.err # "none" \/ "west_east_stag" \notin DimNames(r.ds) THEN r
    ELSE SetAxis(r.ds, "west_east_stag", u.west_east_stag, Shifted(XAttrs))

\* Lines 142-146.
AttachGridMapping(r, u) ==
    IF r.err # "none" THEN r ELSE AddGridMapping(r.ds, u.crs)

\* Lines 106-148, with the names bound by the unpacking.
AttachAll(d, u) ==
    AttachGridMapping(
        AttachWestEastStag(
            AttachSouthNorthStag(
                AttachWestEast(AttachSouthNorth(d, u), u), u), u), u)

WithGrid(r, g) == [ds |-> r.ds, err |-> r.err, grid |-> g]

AttachTo(d, g) ==
    IF g.err # "none" THEN [ds |-> d, err |-> g.err, grid |-> g]
    ELSE WithGrid(AttachAll(d, Unpack(g)), g)

\* add_horizontal_projection_coordinates(dataset): [ds, err, grid].
add_horizontal_projection_coordinates(d, centre) ==
    AttachTo(d, wrf_grid_from_dataset(d, centre))

----------------------------------------------------------------------------
(* Inputs of the grid projector *)

Spacings == {1, 3}
Centres == {<<0, 0>>, <<5, -3>>}

WrfAttrs(code, dx, dy, lat1, cenlon) ==
    [MAP_PROJ |-> code, DX |-> dx, DY |-> dy, CEN_LON |-> cenlon,
     CEN_LAT |-> 39, TRUELAT1 |-> lat1, TRUELAT2 |-> 60,
     MOAD_CEN_LAT |-> 40, STAND_LON |-> -100]

HarAttrs(name, dx, dy, lat1, cenlon) ==
    [PROJ_ENVI_STRING |-> "envi", PROJ_NAME |-> name,
     GRID_DX |-> dx, GRID_DY |-> dy,
     PROJ_STANDARD_PAR1 |-> lat1, PROJ_STANDARD_PAR2 |-> 60,
     PROJ_CENTRAL_LAT |-> 40, PROJ_CENTRAL_LON |-> cenlon]

Field(dims, nx, ny, c) ==
    Var(dims, Ramp(ShapeOf(dims, nx, ny), c), [units |-> "K"])

\* The fields of a grid input: T2 on the mass grid, U and V on the staggered
\* grids when the dataset has them, and for the HAR dialect the two axes the
\* file supplies.
GridVars(har, nx, ny, dx, dy, stagx, stagy) ==
    [x \in {"T2"} \cup (IF stagx THEN {"U10"} ELSE {})
                  \cup (IF stagy THEN {"V10"} ELSE {})
                  \cup (IF har THEN {"west_east", "south_north"} ELSE {}) |->
        CASE x = "T2" -> Field(<<"Time", "south_north", "west_east">>, nx, ny, 0)
          [] x = "U10" ->
                Field(<<"Time", "south_north", "west_east_stag">>, nx, ny, 1)
          [] x = "V10" ->
                Field(<<"Time", "south_north_stag", "west_east">>, nx, ny, 2)
          [] x = "west_east" ->
                [dims |-> <<"west_east">>,
                 data |-> [i \in 1..nx |-> 2 * (7 + (i - 1) * dx)],
                 attrs |-> NoAttrs, encoding |-> NoAttrs, coord |-> TRUE]
          [] x = "south_north" ->
                [dims |-> <<"south_north">>,
                 data |-> [i \in 1..ny |-> 2 * (-4 + (i - 1) * dy)],
                 attrs |-> NoAttrs, encoding |-> NoAttrs, coord |-> TRUE]]

Dialects ==
    {[har |-> FALSE, code |-> c, name |-> ""] : c \in 1..4}
    \cup {[har |-> TRUE, code |-> 0, name |-> n] :
            n \in {"Lambert Conformal Conic", "Polar Stereographic"}}

InitGrid ==
    /\ \E dl \in Dialects, nx \in 1..MaxN, ny \in 1..MaxN,
          dx \in Spacings, dy \in Spacings,
          stagx \in BOOLEAN, stagy \in BOOLEAN,
          lat1 \in {30, 45}, cenlon \in {-98, -100} :
         in0 = [vars |-> GridVars(dl.har, nx, ny, dx, dy, stagx, stagy),
                attrs |-> IF dl.har
                          THEN HarAttrs(dl.name, dx, dy, lat1, cenlon)
                          ELSE WrfAttrs(dl.code, dx, dy, lat1, cenlon)]
    /\ ds = in0
    /\ en \in Centres
    /\ drop = FALSE
    /\ destagger = FALSE
    /\ pc = "call"
    /\ err = "none"
    /\ ret = "none"
    /\ warned = {}
    /\ grid = NoGrid

\* _wrf_grid_from_dataset called on the dataset.
GridFromDataset ==
    /\ pc = "call"
    /\ grid' = wrf_grid_from_dataset(ds, en)
    /\ err' = grid'.err
    /\ ret' = IF grid'.err = "none" THEN "grid" ELSE "none"
    /\ pc' = "grid_done"
    /\ UNCHANGED <<ds, in0, drop, destagger, warned, en>>

\* add_horizontal_projection_coordinates called on the dataset.
AddHorizontal ==
    /\ pc = "call"
    /\ LET r == add_horizontal_projection_coordinates(ds, en)
       IN  /\ ds' = r.ds
           /\ err' = r.err
           /\ grid' = r.grid
           /\ ret' = IF r.err = "none" THEN "dataset" ELSE "none"
    /\ pc' = "attach_done"
    /\ UNCHANGED <<in0, drop, destagger, warned, en>>

NextGrid == GridFromDataset \/ AddHorizontal

SpecGrid == InitGrid /\ [][NextGrid]_vars

----------------------------------------------------------------------------
(* io_plugin.py *)

LatCoords == {"XLAT", "XLAT_M", "XLAT_U", "XLAT_V", "CLAT", "XLAT_C"}
LonCoords == {"XLONG", "XLONG_M", "XLONG_U", "XLONG_V", "CLONG", "XLONG_C"}
VerticalCoords == {"ZNU", "ZNW"}
TimeCoordVars == {"XTIME", "Times", "Time", "time"}
AllCoords == LatCoords \cup LonCoords \cup VerticalCoords \cup TimeCoordVars

Coords(d) == {x \in DOMAIN d.vars : d.vars[x].coord}

\* Lines 47-48: set_coords.
SetCoords(d) ==
    [d EXCEPT !.vars =
        [x \in DOMAIN d.vars |->
            IF x \in AllCoords THEN [d.vars[x] EXCEPT !.coord = TRUE]
            ELSE d.vars[x]]]

\* The time stamps strptime reads with '%Y-%m-%d_%H:%M:%S', by the hour they
\* name (counted from 2020-01-01 00:00).
Stamps ==
    <<"2020-01-01_00:00:00", "2020-01-01_01:00:00",
      "2020-01-01_02:00:00", "2020-01-01_03:00:00">>

Bytes(s) == [kind |-> "bytes", s |-> s, t |-> 0]
DateTime(t) == [kind |-> "datetime", s |-> "", t |-> t]

\* x.decode('utf-8') needs a bytes object; to_datetime needs every string to
\* match the format.
Parses(x) == x.kind = "bytes" /\ x.s \in Range(Stamps)
ParseTime(x) == DateTime((CHOOSE h \in 1..Len(Stamps) : Stamps[h] = x.s) - 1)

\* Lines 56-59 succeed on a one-dimensional array of well-formed byte strings.
CanDecode(v) ==
    /\ Len(v.dims) = 1
    /\ \A i \in 1..Len(v.data) : Parses(v.data[i])

\* assign_coords({coord: (dims[1:], data[0, ...])}): a fresh variable.
Collapsed(v) ==
    [dims |-> Tail(v.dims), data |-> v.data[1], attrs |-> NoAttrs,
     encoding |-> NoAttrs, coord |-> TRUE]

\* Lines 52-72 for one coordinate.
RepairOne(name, v) ==
    LET attrs == v.attrs
        encoding == v.encoding
        w == IF name \in TimeCoordVars
             THEN IF CanDecode(v)
                  THEN [v EXCEPT !.data =
                           [i \in 1..Len(v.data) |-> ParseTime(v.data[i])]]
                  ELSE v
             ELSE IF name \in LonCoords \cup LatCoords /\ Len(v.dims) = 3
             THEN Collapsed(v)
             ELSE IF name \in VerticalCoords /\ Len(v.dims) = 2
             THEN Collapsed(v)
             ELSE v
    IN  [w EXCEPT !.attrs = attrs, !.encoding = encoding]

\* Lines 46-72: [ds, warned].
RepairCoords(d) ==
    LET d1 == SetCoords(d)
    IN  [ds |-> [d1 EXCEPT !.vars =
                    [x \in DOMAIN d1.vars |->
                        IF d1.vars[x].coord THEN RepairOne(x, d1.vars[x])
                        ELSE d1.vars[x]]],
         warned |-> {x \in Coords(d1) \cap TimeCoordVars :
                        ~CanDecode(d1.vars[x])}]

\* Lines 78-80 (and 81-83, 84-86): dataset[dim] = dataset[src]; del
\* dataset[src].
PromoteOne(d, src, dim) ==
    IF src \in Coords(d) /\ dim \in DimNames(d) /\ NDim(d, src) = 1
    THEN DelVar(SetVar(d, dim, [d.vars[src] EXCEPT !.coord = TRUE]), src)
    ELSE d

\* Lines 77-86.
Promote(d) ==
    PromoteOne(PromoteOne(PromoteOne(d, "ZNU", "bottom_top"),
                          "ZNW", "bottom_top_stag"),
               "XTIME", "Time")

\* Lines 74-88: attach the projection, then promote.
FinishCoords(d, centre) ==
    LET r == add_horizontal_projection_coordinates(d, centre)
    IN  IF r.err # "none" THEN r ELSE [r EXCEPT !.ds = Promote(r.ds)]

----------------------------------------------------------------------------
(* Inputs of the open entry point and of the coordinate reconciler *)

Geo(name) ==
    [dims |-> <<"Time", "south_north", "west_east">>,
     data |-> Ramp(ShapeOf(<<"Time", "south_north", "west_east">>, MaxN, 1),
                   IF name = "XLAT" THEN 40 ELSE -100),
     attrs |-> [units |-> IF name = "XLAT" THEN "degree_north"
                          ELSE "degree_east"],
     encoding |-> [dtype |-> "float32"], coord |-> FALSE]

\* Times as the reader gives it: byte strings, the last one malformed when
\* asked.
TimesVar(wellFormed) ==
    [dims |-> <<"Time">>,
     data |-> [i \in 1..NT |->
                  IF i = NT /\ ~wellFormed THEN Bytes("not-a-date")
                  ELSE Bytes(Stamps[i])],
     attrs |-> [description |-> "times"],
     encoding |-> [dtype |-> "S19"], coord |-> FALSE]

\* XTIME as the reader gives it with decode_times: already datetimes.
XtimeVar ==
    [dims |-> <<"Time">>, data |-> [i \in 1..NT |-> DateTime(i - 1)],
     attrs |-> [description |-> "minutes since start"],
     encoding |-> [units |-> "minutes since 2020-01-01"], coord |-> TRUE]

\* ZNU or ZNW, with or without the leading Time axis.
Eta(dim, nd) ==
    LET dims == IF nd = 2 THEN <<"Time", dim>> ELSE <<dim>>
    IN  [dims |-> dims, data |-> Ramp(ShapeOf(dims, MaxN, 1), 0),
         attrs |-> [units |-> ""], encoding |-> [dtype |-> "float32"],
         coord |-> FALSE]

\* cfg: times in {"none", "good", "bad"}, xtime in BOOLEAN, znu in 0..2 and
\* znw in 0..1 (0: absent, else the number of dimensions).
CoordConfigs ==
    [times : {"none", "good", "bad"}, xtime : BOOLEAN, znu : 0..2,
     znw : 0..1]

CoordVars(cfg) ==
    [x \in {"XLAT", "XLONG", "W"}
           \cup (IF cfg.times # "none" THEN {"Times"} ELSE {})
           \cup (IF cfg.xtime THEN {"XTIME"} ELSE {})
           \cup (IF cfg.znu > 0 THEN {"ZNU"} ELSE {})
           \cup (IF cfg.znw > 0 THEN {"ZNW"} ELSE {}) |->
        CASE x \in {"XLAT", "XLONG"} -> Geo(x)
          [] x = "W" -> Field(StagDims, MaxN, 1, 0)
          [] x = "Times" -> TimesVar(cfg.times = "good")
          [] x = "XTIME" -> XtimeVar
          [] x = "ZNU" -> Eta("bottom_top", cfg.znu)
          [] x = "ZNW" -> Eta("bottom_top_stag", cfg.znw)]

\* The raw fields a file may hold: all five, all but one, or none.
RawChoices == {RawNames, {}} \cup {RawNames \ {x} : x \in RawNames}

\* A WRF output file as the NetCDF reader gives it.
WrfFile(present, code, cfg) ==
    [vars |-> CoordVars(cfg)
              @@ RawDataset(present, [x \in present |-> 1], "", MaxN, 1).vars,
     attrs |-> WrfAttrs(code, 3, 3, 30, -98)]

InitOpen ==
    /\ \E present \in RawChoices, code \in 1..4, cfg \in CoordConfigs :
         in0 = WrfFile(present, code, cfg)
    /\ ds = in0
    /\ en \in Centres
    /\ drop \in BOOLEAN
    /\ destagger \in BOOLEAN
    /\ pc = "open"
    /\ err = "none"
    /\ ret = "none"
    /\ warned = {}
    /\ grid = NoGrid

\* open_dataset line 140.
Diagnose ==
    /\ pc = "open"
    /\ LET r == calc_base_diagnostics(ds, drop)
       IN  /\ ds' = r.ds
           /\ err' = r.err
           /\ pc' = IF r.err = "none" THEN "diagnosed" ELSE "raised"
    /\ UNCHANGED <<in0, drop, destagger, ret, warned, grid, en>>

\* open_dataset lines 143-147: with destagger the call returns a
\* NotImplementedError object; otherwise it calls fixup_coords.
DestaggerBranch ==
    /\ pc = "diagnosed"
    /\ pc' = IF destagger THEN "returned" ELSE "fixup"
    /\ ret' = IF destagger THEN "NotImplementedError" ELSE ret
    /\ UNCHANGED <<ds, in0, drop, destagger, err, warned, grid, en>>

\* fixup_coords lines 46-72.
FixupRepair ==
    /\ pc = "fixup"
    /\ LET r == RepairCoords(ds)
       IN  /\ ds' = r.ds
           /\ warned' = r.warned
    /\ pc' = "repaired"
    /\ UNCHANGED <<in0, drop, destagger, err, ret, grid, en>>

\* fixup_coords lines 74-88.
FixupFinish ==
    /\ pc = "repaired"
    /\ LET r == FinishCoords(ds, en)
       IN  /\ ds' = r.ds
           /\ err' = r.err
           /\ grid' = r.grid
           /\ ret' = IF r.err = "none" THEN "dataset" ELSE "none"
           /\ pc' = IF r.err = "none" THEN "returned" ELSE "raised"
    /\ UNCHANGED <<in0, drop, destagger, warned, en>>

NextOpen == Diagnose \/ DestaggerBranch \/ FixupRepair \/ FixupFinish

SpecOpen == InitOpen /\ [][NextOpen]_vars

\* What reconciliation is specified to produce from d: the coordinates
\* repaired, each axis given its own array, the marker and the back-references
\* added, the vertical and time coordinates promoted.
Reconciled(d, centre) ==
    LET r == RepairCoords(d).ds
        u == Unpack_values(wrf_grid_from_dataset(r, centre))
        a == SetAxis(AttachSouthNorth(r, u).ds, "west_east", u.west_east,
                     XAttrs)
    IN  Promote(AttachGridMapping(
                    AttachWestEastStag(AttachSouthNorthStag(a, u), u), u).ds)

\* fixup_coords is called on a diagnosed dataset, or on one that is already
\* reconciled.
InitFix ==
    /\ en \in Centres
    /\ drop \in BOOLEAN
    /\ \E code \in 1..4, cfg \in CoordConfigs, again \in BOOLEAN :
         LET d == calc_base_diagnostics(WrfFile(RawNames, code, cfg), drop).ds
         IN  /\ again => code \in 1..3
             /\ in0 = IF again THEN Reconciled(d, en) ELSE d
    /\ ds = in0
    /\ destagger = FALSE
    /\ pc = "fixup"
    /\ err = "none"
    /\ ret = "none"
    /\ warned = {}
    /\ grid = NoGrid

NextFix == FixupRepair \/ FixupFinish

SpecFix == InitFix /\ [][NextFix]_vars

----------------------------------------------------------------------------
(* Claims about the diagnostic deriver, under SpecDiag *)

DiagDone == pc = "done"
AllRawIn(d) == RawNames \subseteq DOMAIN d.vars
FlatData(d, name) == Flat(d.vars[name].data, NDim(d, name))

\* The derived fields whose raw inputs are all in d.
Derivable(d) ==
    (IF Has(d, "T") THEN {"air_potential_temperature"} ELSE {})
    \cup (IF Has(d, "P") /\ Has(d, "PB") THEN {"air_pressure"} ELSE {})
    \cup (IF Has(d, "PH") /\ Has(d, "PHB")
          THEN {"geopotential", "geopotential_height"} ELSE {})

\* C1: calc_base_diagnostics never fails because a raw input is absent: it
\* returns normally, produces exactly the derived fields whose inputs are all
\* present and none of the others.
C1_AbsentInputIsSkipped ==
    DiagDone =>
        /\ err = "none"
        /\ ret = "dataset"
        /\ (DOMAIN ds.vars) \cap DerivedNames = Derivable(in0)

\* C5: with T, P, PB, PH and PHB all present, element by element,
\* air_potential_temperature = T + 300, air_pressure = P + PB,
\* geopotential = PH + PHB and geopotential_height = geopotential / 9.81,
\* taking the raw values as they were before the call.
C5_DerivedValues ==
    (DiagDone /\ AllRawIn(in0)) =>
        /\ err = "none"
        /\ DerivedNames \subseteq DOMAIN ds.vars
        /\ LET th == FlatData(ds, "air_potential_temperature")
               pr == FlatData(ds, "air_pressure")
               gp == FlatData(ds, "geopotential")
               gh == FlatData(ds, "geopotential_height")
               t  == FlatData(in0, "T")
               p  == FlatData(in0, "P")
               pb == FlatData(in0, "PB")
               ph == FlatData(in0, "PH")
               phb == FlatData(in0, "PHB")
           IN  /\ ds.vars["air_potential_temperature"].dims = in0.vars["T"].dims
               /\ ds.vars["air_pressure"].dims = in0.vars["P"].dims
               /\ ds.vars["geopotential"].dims = in0.vars["PH"].dims
               /\ ds.vars["geopotential_height"].dims = in0.vars["PH"].dims
               /\ Len(th) = Len(t) /\ Len(pr) = Len(p)
               /\ Len(gp) = Len(ph) /\ Len(gh) = Len(ph)
               /\ \A i \in 1..Len(t) : th[i] = t[i] + 300
               /\ \A i \in 1..Len(p) : pr[i] = p[i] + pb[i]
               /\ \A i \in 1..Len(ph) :
                     /\ gp[i] = ph[i] + phb[i]
                     \* gh = gp / 9.81, cross-multiplied
                     /\ gh[i].den > 0
                     /\ 981 * gh[i].num = 100 * gp[i] * gh[i].den

\* C5's case: the call is done on a dataset with all five raw fields, some
\* geopotential is not zero and P differs from PB.
C5_Witness ==
    /\ DiagDone /\ AllRawIn(in0) /\ err = "none"
    /\ \E i \in 1..Len(FlatData(ds, "geopotential")) :
          FlatData(ds, "geopotential")[i] > 0
    /\ FlatData(in0, "P") # FlatData(in0, "PB")

\* C6: on a dataset with all five raw fields, drop = true leaves none of them
\* in the result, drop = false leaves all five as they were, and the four
\* derived fields are present either way.
C6_DropSemantics ==
    (DiagDone /\ AllRawIn(in0)) =>
        /\ err = "none"
        /\ drop => (DOMAIN ds.vars) \cap RawNames = {}
        /\ ~drop => \A x \in RawNames : Has(ds, x) /\ ds.vars[x] = in0.vars[x]
        /\ DerivedNames \subseteq DOMAIN ds.vars

\* C6's case: a finished call with drop = true on a full dataset.
C6_Witness ==
    /\ DiagDone /\ AllRawIn(in0) /\ drop
    /\ (DOMAIN ds.vars) \cap RawNames = {}
    /\ DerivedNames \subseteq DOMAIN ds.vars

----------------------------------------------------------------------------
(* Claims about the grid projector, under SpecGrid *)

IsHar(d) == HasAttr(d, "PROJ_ENVI_STRING")
InputLat1(d) ==
    IF IsHar(d) THEN d.attrs["PROJ_STANDARD_PAR1"] ELSE d.attrs["TRUELAT1"]
InputCenterLon(d) ==
    IF IsHar(d) THEN d.attrs["PROJ_CENTRAL_LON"] ELSE d.attrs["CEN_LON"]
InputDx(d) == IF IsHar(d) THEN d.attrs["GRID_DX"] ELSE d.attrs["DX"]
InputDy(d) == IF IsHar(d) THEN d.attrs["GRID_DY"] ELSE d.attrs["DY"]
Discriminant(d) ==
    IF ~IsHar(d) THEN d.attrs["MAP_PROJ"]
    ELSE IF d.attrs["PROJ_NAME"] \in {"Lambert Conformal Conic",
                                      "WRF Lambert Conformal"}
    THEN 1 ELSE 99

\* C3: after add_horizontal_projection_coordinates on a canonical WRF dataset
\* (supported projection), south_north holds y0 + i dy, west_east holds
\* x0 + i dx, and each staggered axis is assigned its staggered array exactly
\* when the dataset has that staggered dimension.  (Coordinates doubled.)
C3_AxesHoldTheirArrays ==
    (pc = "attach_done" /\ ~IsHar(in0) /\ Discriminant(in0) \in 1..3) =>
        LET nx == DimSize(in0, "west_east")
            ny == DimSize(in0, "south_north")
            dx == InputDx(in0)
            dy == InputDy(in0)
            x0 == 2 * en[1] - (nx - 1) * dx
            y0 == 2 * en[2] - (ny - 1) * dy
        IN  /\ err = "none"
            /\ Has(ds, "south_north")
            /\ ds.vars["south_north"].data =
                  [i \in 1..ny |-> y0 + 2 * (i - 1) * dy]
            /\ Has(ds, "west_east")
            /\ ds.vars["west_east"].data =
                  [i \in 1..nx |-> x0 + 2 * (i - 1) * dx]
            /\ Has(ds, "south_north_stag")
                  <=> "south_north_stag" \in DimNames(in0)
            /\ Has(ds, "west_east_stag")
                  <=> "west_east_stag" \in DimNames(in0)
            /\ Has(ds, "south_north_stag") =>
                  ds.vars["south_north_stag"].data =
                      [i \in 1..(ny + 1) |-> y0 + (2 * (i - 1) - 1) * dy]
            /\ Has(ds, "west_east_stag") =>
                  ds.vars["west_east_stag"].data =
                      [i \in 1..(nx + 1) |-> x0 + (2 * (i - 1) - 1) * dx]

\* C4: discriminant 1 gives an lcc parameter set without center_lon; 2 gives
\* polar stereographic with lat_0 = 90, lat_ts = the input lat_1 and no lat_1,
\* lat_2, center_lon; 3 gives Mercator with lon_0 = the input center_lon,
\* lat_ts = the input lat_1 and no lat_0, lat_1, lat_2, center_lon; any other
\* discriminant ends in NotImplementedError and gives no grid.
C4_ProjectionFamily ==
    grid.called =>
        LET code == Discriminant(in0)
            keys == DOMAIN grid.vals.crs.val
            P == grid.vals.crs.val
        IN  /\ code \in 1..3 => grid.err = "none"
            /\ code = 1 =>
                  /\ P["proj"] = "lcc"
                  /\ "center_lon" \notin keys
            /\ code = 2 =>
                  /\ P["proj"] = "stere"
                  /\ P["lat_0"] = 90
                  /\ P["lat_ts"] = InputLat1(in0)
                  /\ keys \cap {"lat_1", "lat_2", "center_lon"} = {}
            /\ code = 3 =>
                  /\ P["proj"] = "merc"
                  /\ P["lon_0"] = InputCenterLon(in0)
                  /\ P["lat_ts"] = InputLat1(in0)
                  /\ keys \cap {"lat_0", "lat_1", "lat_2", "center_lon"} = {}
            /\ code \notin 1..3 =>
                  /\ grid.err = "NotImplementedError"
                  /\ err = "NotImplementedError"
                  /\ "vals" \notin DOMAIN grid

\* C4's case: a Mercator grid whose center_lon is not its STAND_LON.
C4_Witness ==
    /\ pc = "grid_done" /\ grid.err = "none"
    /\ Discriminant(in0) = 3
    /\ in0.attrs["CEN_LON"] # in0.attrs["STAND_LON"]
    /\ grid.vals.crs.val["lon_0"] = in0.attrs["CEN_LON"]

\* C8: west_east has nx elements and west_east_stag nx + 1, south_north has ny
\* and south_north_stag ny + 1, and for every i < nx, j < ny the staggered
\* value is the unstaggered one minus half a cell.  (Coordinates doubled:
\* minus dx, minus dy.)
C8_StaggeredAxes ==
    (grid.called /\ grid.err = "none") =>
        LET nx == DimSize(in0, "west_east")
            ny == DimSize(in0, "south_north")
            we == grid.vals.west_east.val
            wes == grid.vals.west_east_stag.val
            sn == grid.vals.south_north.val
            sns == grid.vals.south_north_stag.val
        IN  /\ Len(we) = nx /\ Len(wes) = nx + 1
            /\ Len(sn) = ny /\ Len(sns) = ny + 1
            /\ \A i \in 1..nx : wes[i] = we[i] - InputDx(in0)
            /\ \A j \in 1..ny : sns[j] = sn[j] - InputDy(in0)

\* C8's case: a grid with nx # ny and dx # dy has been derived.
C8_Witness ==
    /\ pc = "grid_done" /\ grid.err = "none"
    /\ Len(grid.vals.west_east.val) = 2
    /\ Len(grid.vals.south_north_stag.val) = 2
    /\ InputDx(in0) # InputDy(in0)
    /\ grid.vals.west_east_stag.val[1] =
          grid.vals.west_east.val[1] - InputDx(in0)

----------------------------------------------------------------------------
(* Claims about the open entry point, under SpecOpen *)

Ended == pc \in {"returned", "raised"}

\* C2: open_dataset with destagger = true ends in a NotImplementedError and
\* returns nothing.  (fixup_coords is not run: the call never passes through
\* "fixup".)
C2_DestaggerRaises ==
    (destagger /\ AllRawIn(in0) /\ Ended) =>
        /\ err = "NotImplementedError"
        /\ ret = "none"

\* The part of C2 that the code keeps: with destagger, fixup_coords is not
\* entered.
C2_NoFixupWhenDestagger == destagger => pc \notin {"fixup", "repaired"}

----------------------------------------------------------------------------
(* Claims about the coordinate reconciler, under SpecFix *)

Supported(d) == Discriminant(d) \in 1..3

BadTimes(d) == Has(d, "Times") /\ ~CanDecode(d.vars["Times"])

\* C7: when decoding a time coordinate fails, a warning is emitted, the
\* coordinate's data, attributes and encoding are as before, no error is
\* raised, and the remaining steps (projection attachment, dimension
\* coordinate promotion) still run.
C7_DecodeFailureTolerated ==
    (Ended /\ Supported(in0) /\ BadTimes(in0)) =>
        /\ "Times" \in warned
        /\ ds.vars["Times"].data = in0.vars["Times"].data
        /\ ds.vars["Times"].attrs = in0.vars["Times"].attrs
        /\ ds.vars["Times"].encoding = in0.vars["Times"].encoding
        /\ err = "none"
        /\ pc = "returned"
        /\ Has(ds, "wrf_projection")
        /\ "ZNU" \notin Coords(ds) \/ NDim(ds, "ZNU") # 1

\* The part of C7 that the code keeps: after the repair loop the coordinate is
\* as it was and the warning is out.
C7_WarnedAndKept ==
    (pc # "fixup" /\ BadTimes(in0)) =>
        /\ "Times" \in warned
        /\ ds.vars["Times"].data = in0.vars["Times"].data
        /\ ds.vars["Times"].attrs = in0.vars["Times"].attrs
        /\ ds.vars["Times"].encoding = in0.vars["Times"].encoding

\* A dataset the steps before and after the attachment leave as it is, with
\* the axes and the marker in place.
FullyReconciled(d) ==
    /\ {"south_north", "west_east", "wrf_projection"} \subseteq DOMAIN d.vars
    /\ RepairCoords(d).ds = d
    /\ Promote(d) = d

\* C9: reconciliation applied to a fully reconciled dataset returns the same
\* dataset.
C9_ReconcileIdempotent ==
    (Ended /\ FullyReconciled(in0)) =>
        /\ err = "none"
        /\ ret = "dataset"
        /\ ds = in0

\* The part of C9 that the code keeps: the promotion block alone, applied
\* twice, does what it does applied once.
C9_PromotionBlockIdempotent == Promote(Promote(ds)) = Promote(ds)

\* C10: after the attachment within fixup_coords, the marker variable
\* wrf_projection exists and every variable with a horizontal dimension,
\* coordinates such as XLAT and XLONG and the derived fields included, has
\* grid_mapping = 'wrf_projection'.
C10_AllHorizontalTagged ==
    (Ended /\ Supported(in0)) =>
        /\ err = "none"
        /\ Has(ds, "wrf_projection")
        /\ \A x \in DOMAIN ds.vars :
              IsHorizontal(ds.vars[x]) =>
                  /\ "grid_mapping" \in DOMAIN ds.vars[x].attrs
                  /\ ds.vars[x].attrs["grid_mapping"] = "wrf_projection"

====
